---- MODULE Spec2Model ----
(***************************************************************************)
(* UK Name Age Calculator: the distribution estimator and the statistics   *)
(* aggregator of src/src/lib/calculations.js.                              *)
(*                                                                         *)
(* JavaScript numbers are IEEE-754 doubles.  Birth counts, years, ages and *)
(* living estimates are integers, held exactly.  Survival probabilities    *)
(* are fractions, and the product births * probability is rounded to a     *)
(* double before Math.round sees it, so the probabilities are modelled as  *)
(* doubles: a sign, a significand of at most 53 bits (a sequence of bits,  *)
(* most significant first) and the exponent of the last bit.               *)
(***************************************************************************)
EXTENDS Integers, Sequences, FiniteSets, TLC

(***************************************************************************)
(* Natural numbers as bit sequences, most significant bit first, <<>> = 0. *)
(* Arithmetic goes through limbs of LimbBits bits, least significant limb  *)
(* first, so that every intermediate value stays a small integer.          *)
(***************************************************************************)
LimbBits == 15

LimbBase == 2 ^ LimbBits

RECURSIVE BitsOfNat(_)
BitsOfNat(n) == IF n = 0 THEN <<>> ELSE Append(BitsOfNat(n \div 2), n % 2)

RECURSIVE NatOfBits(_)
NatOfBits(b) ==
    IF b = <<>> THEN 0
    ELSE 2 * NatOfBits(SubSeq(b, 1, Len(b) - 1)) + b[Len(b)]

Zeros(k) == [i \in 1..k |-> 0]

StripZeros(b) ==
    LET ones == {i \in 1..Len(b) : b[i] = 1}
    IN  IF ones = {} THEN <<>>
        ELSE SubSeq(b, CHOOSE i \in ones : \A j \in ones : i <= j, Len(b))

ToLimbs(b) ==
    [j \in 1..((Len(b) + LimbBits - 1) \div LimbBits) |->
        NatOfBits(SubSeq(b, IF Len(b) - LimbBits * j + 1 < 1 THEN 1
                            ELSE Len(b) - LimbBits * j + 1,
                         Len(b) - LimbBits * (j - 1)))]

FromLimbs(l) ==
    StripZeros([i \in 1..(LimbBits * Len(l)) |->
        (l[Len(l) - ((i - 1) \div LimbBits)]
            \div (2 ^ (LimbBits - 1 - ((i - 1) % LimbBits)))) % 2])

LimbAt(l, i) == IF i <= Len(l) THEN l[i] ELSE 0

\* l * n + carry for a small natural n, limb by limb.
RECURSIVE MulLimbs(_, _, _, _)
MulLimbs(l, n, i, carry) ==
    IF i > Len(l) THEN (IF carry = 0 THEN <<>> ELSE <<carry>>)
    ELSE << (l[i] * n + carry) % LimbBase >>
         \o MulLimbs(l, n, i + 1, (l[i] * n + carry) \div LimbBase)

MulSmall(b, n) == FromLimbs(MulLimbs(ToLimbs(b), n, 1, 0))

RECURSIVE AddLimbs(_, _, _, _, _)
AddLimbs(x, y, k, i, carry) ==
    IF i > k THEN (IF carry = 0 THEN <<>> ELSE <<carry>>)
    ELSE << (LimbAt(x, i) + LimbAt(y, i) + carry) % LimbBase >>
         \o AddLimbs(x, y, k, i + 1,
                     (LimbAt(x, i) + LimbAt(y, i) + carry) \div LimbBase)

AddBits(a, b) ==
    FromLimbs(AddLimbs(ToLimbs(a), ToLimbs(b),
                       IF Len(a) > Len(b) THEN Len(ToLimbs(a))
                       ELSE Len(ToLimbs(b)), 1, 0))

\* x - y - borrow for x >= y, limb by limb.
RECURSIVE SubLimbs(_, _, _, _)
SubLimbs(x, y, i, borrow) ==
    IF i > Len(x) THEN <<>>
    ELSE << (x[i] - LimbAt(y, i) - borrow + LimbBase) % LimbBase >>
         \o SubLimbs(x, y, i + 1,
                     IF x[i] - LimbAt(y, i) - borrow < 0 THEN 1 ELSE 0)

SubBits(a, b) == FromLimbs(SubLimbs(ToLimbs(a), ToLimbs(b), 1, 0))

\* a < b, for bit sequences without leading zeros.
LessBits(a, b) ==
    IF Len(a) # Len(b) THEN Len(a) < Len(b)
    ELSE LET diff == {i \in 1..Len(a) : a[i] # b[i]}
         IN  diff # {} /\
             a[CHOOSE i \in diff : \A j \in diff : i <= j] = 0

(***************************************************************************)
(* IEEE-754 binary64 values: (-1)^neg * m * 2^e with m of at most          *)
(* MantissaBits bits.  The sign of zero is not observable in this program. *)
(***************************************************************************)
MantissaBits == 53

DZero == [neg |-> FALSE, m |-> <<>>, e |-> 0]

DOne == [neg |-> FALSE, m |-> <<1>>, e |-> 0]

IsZero(d) == d.m = <<>>

\* The double nearest to (-1)^neg * b * 2^e: round to nearest, ties to even.
RoundToDouble(neg, b, e) ==
    IF b = <<>> THEN DZero
    ELSE IF Len(b) <= MantissaBits THEN [neg |-> neg, m |-> b, e |-> e]
    ELSE LET keep   == SubSeq(b, 1, MantissaBits)
             rest   == SubSeq(b, MantissaBits + 1, Len(b))
             sticky == \E i \in 2..Len(rest) : rest[i] = 1
             up     == rest[1] = 1 /\ (sticky \/ keep[MantissaBits] = 1)
             m1     == IF up THEN AddBits(keep, <<1>>) ELSE keep
         IN  IF Len(m1) > MantissaBits
             THEN [neg |-> neg, m |-> SubSeq(m1, 1, MantissaBits),
                   e |-> e + Len(rest) + 1]
             ELSE [neg |-> neg, m |-> m1, e |-> e + Len(rest)]

\* The first k limbs after the binary point of r / den, for 0 <= r < den,
\* most significant first, followed by one more limb that is 1 iff the
\* expansion does not stop there.
RECURSIVE FractionLimbs(_, _, _)
FractionLimbs(r, den, k) ==
    IF k = 0 THEN << IF r = 0 THEN 0 ELSE 1 >>
    ELSE << (LimbBase * r) \div den >>
         \o FractionLimbs((LimbBase * r) % den, den, k - 1)

ParseLimbs == 6

Reverse(q) == [i \in 1..Len(q) |-> q[Len(q) + 1 - i]]

\* A decimal literal num / den (den <= 1000) as the JSON parser or the
\* compiler reads it: the double nearest to the fraction.
ParseDecimal(num, den) ==
    LET mag  == IF num < 0 THEN -num ELSE num
        frac == FractionLimbs(mag % den, den, ParseLimbs)
        all  == FromLimbs(Reverse(<<mag \div den>> \o frac))
    IN  RoundToDouble(num < 0, all, -(LimbBits * (ParseLimbs + 1)))

\* An integer as a double (exact for the magnitudes of this model).
FromInt(n) == [neg |-> n < 0, m |-> BitsOfNat(IF n < 0 THEN -n ELSE n), e |-> 0]

\* JavaScript n * d for an integer n and a double d: the exact product,
\* rounded once.
MulInt(n, d) ==
    LET mag == IF n < 0 THEN -n ELSE n
    IN  IF mag = 0 \/ IsZero(d) THEN DZero
        ELSE RoundToDouble(d.neg # (n < 0), MulSmall(d.m, mag), d.e)

\* JavaScript x - y: align both to the smaller exponent, subtract exactly,
\* round once.
DSub(x, y) ==
    LET emin == IF x.e < y.e THEN x.e ELSE y.e
        xm   == IF IsZero(x) THEN <<>> ELSE x.m \o Zeros(x.e - emin)
        ym   == IF IsZero(y) THEN <<>> ELSE y.m \o Zeros(y.e - emin)
    IN  IF x.neg # y.neg
        THEN RoundToDouble(x.neg, AddBits(xm, ym), emin)
        ELSE IF LessBits(xm, ym)
             THEN RoundToDouble(~x.neg, SubBits(ym, xm), emin)
             ELSE RoundToDouble(x.neg, SubBits(xm, ym), emin)

\* Math.max(0, d)
MathMax0(d) == IF d.neg \/ IsZero(d) THEN DZero ELSE d

Pow2(k) == IF k <= 0 THEN 1 ELSE 2 ^ k

\* Math.round(d): the nearest integer, a tie going towards +Infinity.
MathRound(d) ==
    IF IsZero(d) THEN 0
    ELSE IF d.e >= 0
    THEN (IF d.neg THEN -1 ELSE 1) * NatOfBits(d.m) * Pow2(d.e)
    ELSE LET k    == -d.e
             L    == Len(d.m)
             int  == IF L > k THEN NatOfBits(SubSeq(d.m, 1, L - k)) ELSE 0
             half == IF L >= k THEN d.m[L - k + 1] ELSE 0
             more == \E i \in (L - k + 2)..L : i >= 1 /\ d.m[i] = 1
         IN  IF d.neg
             THEN -(int + (IF half = 1 /\ more THEN 1 ELSE 0))
             ELSE int + half


\* x >= y for doubles: the sign of the exact difference.
DGeq(x, y) == ~DSub(x, y).neg

(***************************************************************************)
(* Values.  A JavaScript value that may be null is a record with a kind.   *)
(*   Null           null or undefined                                      *)
(*   Obj(f)         an object: f maps its keys to its values               *)
(*   Arr(q)         an array: the sequence q of its elements               *)
(* Year keys are the canonical decimal strings the data scripts write      *)
(* (four digits), so Object.keys(..).map(Number) and the lookup by number  *)
(* agree on them and a key is modelled as the integer it denotes.          *)
(* A survival probability k / 1000 in a table is held as the integer k,    *)
(* the decimal literal of the JSON file; TableValue(k) is the double the   *)
(* parser makes of it.                                                     *)
(***************************************************************************)
Null == [kind |-> "null"]

Obj(f) == [kind |-> "object", entries |-> f]

Arr(q) == [kind |-> "array", items |-> q]

PerMille == 1000

TableValue(k) == ParseDecimal(k, PerMille)

(***************************************************************************)
(* calculateAgeDistribution                                                *)
(***************************************************************************)
CURRENT_YEAR == 2025

\* [..].sort((a, b) => a - b) of a set of distinct numbers
RECURSIVE SortAscending(_)
SortAscending(S) ==
    IF S = {} THEN <<>>
    ELSE LET least == CHOOSE y \in S : \A z \in S : y <= z
         IN  <<least>> \o SortAscending(S \ {least})

\* [..].sort((a, b) => b - a) of a set of distinct numbers
RECURSIVE SortDescending(_)
SortDescending(S) ==
    IF S = {} THEN <<>>
    ELSE LET most == CHOOSE y \in S : \A z \in S : y >= z
         IN  <<most>> \o SortDescending(S \ {most})

\* the years sorted with the comparator reversed
SortedYearsReversed(babyNamesData) ==
    SortDescending(DOMAIN babyNamesData.entries)

\* Object.keys(babyNamesData).map(Number).sort((a, b) => a - b)
SortedYears(babyNamesData) == SortAscending(DOMAIN babyNamesData.entries)

\* babyNamesData[year] || 0
BirthsOf(babyNamesData, year) ==
    IF year \in DOMAIN babyNamesData.entries
    THEN babyNamesData.entries[year]
    ELSE 0

\* the age with the operands exchanged
CohortAgeExchanged(year) == year - CURRENT_YEAR

\* CURRENT_YEAR - year
CohortAge(year) == CURRENT_YEAR - year

\* lifeTablesData[y][age] !== undefined, for a year y of the table
Defines(lifeTablesData, y, age) == age \in DOMAIN lifeTablesData.entries[y]

\* the approximation without its Math.max
LinearApproximationUnclamped(age) ==
    DSub(DOne, MulInt(age, ParseDecimal(12, 1000)))

\* Math.max(0, 1 - (age * 0.012))
LinearApproximation(age) ==
    MathMax0(DSub(DOne, MulInt(age, ParseDecimal(12, 1000))))

\* the search over the years in ascending order: the oldest table first
ClosestYearOldestFirst(lifeTablesData, age) ==
    LET availableYears == SortAscending(DOMAIN lifeTablesData.entries)
        hits == {i \in 1..Len(availableYears) :
                    age \in DOMAIN lifeTablesData.entries[availableYears[i]]}
    IN  IF hits = {} THEN 0
        ELSE availableYears[CHOOSE i \in hits : \A j \in hits : i <= j]

\* availableYears.find(y => lifeTablesData[y][age] !== undefined):
\* the first such year of the descending order, 0 standing for undefined
ClosestYear(lifeTablesData, age) ==
    LET availableYears == SortDescending(DOMAIN lifeTablesData.entries)
        hits == {i \in 1..Len(availableYears) :
                    Defines(lifeTablesData, availableYears[i], age)}
    IN  IF hits = {} THEN 0
        ELSE availableYears[CHOOSE i \in hits : \A j \in hits : i <= j]

\* the survival probability without the exact lookup of the birth year
SurvivalProbabilityNoExact(lifeTablesData, year, age) ==
    IF ClosestYear(lifeTablesData, age) # 0
    THEN TableValue(
            lifeTablesData.entries[ClosestYear(lifeTablesData, age)][age])
    ELSE LinearApproximation(age)

\* the survival probability of lines 40-55
SurvivalProbability(lifeTablesData, year, age) ==
    IF year \in DOMAIN lifeTablesData.entries
       /\ Defines(lifeTablesData, year, age)
    THEN TableValue(lifeTablesData.entries[year][age])
    ELSE IF ClosestYear(lifeTablesData, age) # 0
         THEN TableValue(
                lifeTablesData.entries[ClosestYear(lifeTablesData, age)][age])
         ELSE LinearApproximation(age)

\* Math.round(births * survivalProbability)
Living(births, survivalProbability) ==
    MathRound(MulInt(births, survivalProbability))

\* the body of the for loop, for the years from position i on
RECURSIVE DistributionFrom(_, _, _, _)
DistributionFrom(years, i, babyNamesData, lifeTablesData) ==
    IF i > Len(years) THEN <<>>
    ELSE (IF BirthsOf(babyNamesData, years[i]) = 0 THEN <<>>
          ELSE << [year   |-> years[i],
                   births |-> BirthsOf(babyNamesData, years[i]),
                   living |-> Living(BirthsOf(babyNamesData, years[i]),
                                     SurvivalProbability(lifeTablesData,
                                         years[i], CohortAge(years[i]))),
                   age    |-> CohortAge(years[i])] >>)
         \o DistributionFrom(years, i + 1, babyNamesData, lifeTablesData)

\* the function taking a missing survival table for an empty one
calculateAgeDistributionDefaultTables(name, gender, babyNamesData, lifeTablesData) ==
    IF name = "" \/ babyNamesData = Null
    THEN Arr(<<>>)
    ELSE Arr(DistributionFrom(SortedYears(babyNamesData), 1, babyNamesData,
                IF lifeTablesData = Null THEN Obj(<<>>) ELSE lifeTablesData))

\* gender is a parameter the function never reads
calculateAgeDistribution(name, gender, babyNamesData, lifeTablesData) ==
    IF name = "" \/ babyNamesData = Null \/ lifeTablesData = Null
    THEN Arr(<<>>)
    ELSE Arr(DistributionFrom(SortedYears(babyNamesData), 1,
                              babyNamesData, lifeTablesData))


(***************************************************************************)
(* The statistics aggregator                                               *)
(***************************************************************************)
\* the sum taken over the births instead of the living
RECURSIVE SumBirthsFrom(_, _, _)
SumBirthsFrom(q, i, sum) ==
    IF i > Len(q) THEN sum ELSE SumBirthsFrom(q, i + 1, sum + q[i].births)

\* distribution.reduce((sum, d) => sum + d.living, 0) from position i on
RECURSIVE SumLivingFrom(_, _, _)
SumLivingFrom(q, i, sum) ==
    IF i > Len(q) THEN sum ELSE SumLivingFrom(q, i + 1, sum + q[i].living)

\* !distribution || distribution.length === 0
MissingOrEmpty(distribution) ==
    distribution = Null \/ distribution.items = <<>>

calculateTotalLiving(distribution) ==
    IF MissingOrEmpty(distribution) THEN 0
    ELSE SumLivingFrom(distribution.items, 1, 0)

\* [...distribution].sort((a, b) => a.age - b.age): youngest first
RECURSIVE SortByAgeAscending(_)
SortByAgeAscending(q) ==
    IF q = <<>> THEN <<>>
    ELSE LET rest    == SortByAgeAscending(Tail(q))
             younger == Cardinality({i \in 1..Len(rest) :
                                        rest[i].age < Head(q).age})
         IN  SubSeq(rest, 1, younger) \o <<Head(q)>>
             \o SubSeq(rest, younger + 1, Len(rest))

\* [...distribution].sort((a, b) => b.age - a.age): the sort is stable, so
\* an entry goes behind the entries of the sorted rest that are older and
\* before those of its own age.
RECURSIVE SortByAgeDescending(_)
SortByAgeDescending(q) ==
    IF q = <<>> THEN <<>>
    ELSE LET rest  == SortByAgeDescending(Tail(q))
             older == Cardinality({i \in 1..Len(rest) :
                                      rest[i].age > Head(q).age})
         IN  SubSeq(rest, 1, older) \o <<Head(q)>>
             \o SubSeq(rest, older + 1, Len(rest))

\* distribution.reduce((max, d) => d.living > max.living ? d : max, ..)
RECURSIVE MostLivingFrom(_, _, _)
MostLivingFrom(q, i, max) ==
    IF i > Len(q) THEN max
    ELSE MostLivingFrom(q, i + 1, IF q[i].living > max.living THEN q[i] ELSE max)

\* the loop returning the position of the entry in place of its age
RECURSIVE MedianWalkPosition(_, _, _, _)
MedianWalkPosition(sortedByAge, i, cumulativeLiving, totalLiving) ==
    IF i > Len(sortedByAge) THEN <<>>
    ELSE IF 2 * (cumulativeLiving + sortedByAge[i].living) >= totalLiving
         THEN <<i>>
         ELSE MedianWalkPosition(sortedByAge, i + 1,
                         cumulativeLiving + sortedByAge[i].living, totalLiving)

\* The for loop of calculateMedianAge from position i on.  halfPopulation
\* is totalLiving / 2, exact in a double, so cumulativeLiving >=
\* halfPopulation is 2 * cumulativeLiving >= totalLiving.  The result is
\* <<age>> when the loop returns and <<>> when it runs to its end.
RECURSIVE MedianWalk(_, _, _, _)
MedianWalk(sortedByAge, i, cumulativeLiving, totalLiving) ==
    IF i > Len(sortedByAge) THEN <<>>
    ELSE IF 2 * (cumulativeLiving + sortedByAge[i].living) >= totalLiving
         THEN <<sortedByAge[i].age>>
         ELSE MedianWalk(sortedByAge, i + 1,
                         cumulativeLiving + sortedByAge[i].living, totalLiving)

calculateMedianAge(distribution) ==
    IF MissingOrEmpty(distribution) THEN 0
    ELSE IF SumLivingFrom(distribution.items, 1, 0) = 0 THEN 0
    ELSE LET walk == MedianWalk(SortByAgeDescending(distribution.items), 1, 0,
                                SumLivingFrom(distribution.items, 1, 0))
         IN  IF walk # <<>> THEN walk[1]
             ELSE MostLivingFrom(distribution.items, 1,
                                 distribution.items[1]).age

\* distribution.reduce((max, d) => d.births >= max.births ? d : max, ..)
RECURSIVE PeakFromLastWins(_, _, _)
PeakFromLastWins(q, i, max) ==
    IF i > Len(q) THEN max
    ELSE PeakFromLastWins(q, i + 1,
                          IF q[i].births >= max.births THEN q[i] ELSE max)

\* distribution.reduce((max, d) => d.births > max.births ? d : max, ..)
RECURSIVE PeakFrom(_, _, _)
PeakFrom(q, i, max) ==
    IF i > Len(q) THEN max
    ELSE PeakFrom(q, i + 1, IF q[i].births > max.births THEN q[i] ELSE max)

\* findPeakBirthYear answering an empty distribution with the year -1
findPeakBirthYearNotFound(distribution) ==
    IF MissingOrEmpty(distribution) THEN [year |-> -1, births |-> 0]
    ELSE LET peak == PeakFrom(distribution.items, 1, distribution.items[1])
         IN  [year |-> peak.year, births |-> peak.births]

findPeakBirthYear(distribution) ==
    IF MissingOrEmpty(distribution) THEN [year |-> 0, births |-> 0]
    ELSE LET peak == PeakFrom(distribution.items, 1, distribution.items[1])
         IN  [year |-> peak.year, births |-> peak.births]

\* totalLiving * (percentile / 100)
PercentileTarget(totalLiving, percentile) ==
    MulInt(totalLiving, ParseDecimal(percentile, 100))

\* the loop with the two thresholds exchanged
RECURSIVE AgeRangeWalkExchanged(_, _, _, _, _, _, _)
AgeRangeWalkExchanged(sorted, i, cumulative, lowerAge, upperAge, lowerBar, upperBar) ==
    IF i > Len(sorted) \/ (lowerAge # <<>> /\ upperAge # <<>>)
    THEN [lower |-> lowerAge, upper |-> upperAge]
    ELSE AgeRangeWalkExchanged(sorted, i + 1, cumulative + sorted[i].living,
            IF lowerAge = <<>>
               /\ DGeq(FromInt(cumulative + sorted[i].living), upperBar)
            THEN <<sorted[i].age>> ELSE lowerAge,
            IF upperAge = <<>>
               /\ DGeq(FromInt(cumulative + sorted[i].living), lowerBar)
            THEN <<sorted[i].age>> ELSE upperAge,
            lowerBar, upperBar)

\* The for loop of calculateAgeRange from position i on; lowerAge and
\* upperAge are <<>> while null and <<age>> once set.
RECURSIVE AgeRangeWalk(_, _, _, _, _, _, _)
AgeRangeWalk(sorted, i, cumulative, lowerAge, upperAge, lowerBar, upperBar) ==
    IF i > Len(sorted) \/ (lowerAge # <<>> /\ upperAge # <<>>)
    THEN [lower |-> lowerAge, upper |-> upperAge]
    ELSE AgeRangeWalk(sorted, i + 1, cumulative + sorted[i].living,
            IF lowerAge = <<>>
               /\ DGeq(FromInt(cumulative + sorted[i].living), lowerBar)
            THEN <<sorted[i].age>> ELSE lowerAge,
            IF upperAge = <<>>
               /\ DGeq(FromInt(cumulative + sorted[i].living), upperBar)
            THEN <<sorted[i].age>> ELSE upperAge,
            lowerBar, upperBar)

\* age || 0
OrZero(age) == IF age = <<>> THEN 0 ELSE age[1]

\* calculateAgeRange comparing the running sum with the targets themselves
calculateAgeRangeOfTargets(distribution, lowerPercentile, upperPercentile) ==
    IF MissingOrEmpty(distribution) THEN [lower |-> 0, upper |-> 0]
    ELSE IF SumLivingFrom(distribution.items, 1, 0) = 0
    THEN [lower |-> 0, upper |-> 0]
    ELSE LET totalLiving == SumLivingFrom(distribution.items, 1, 0)
             walk == AgeRangeWalk(SortByAgeDescending(distribution.items),
                        1, 0, <<>>, <<>>,
                        PercentileTarget(totalLiving, lowerPercentile),
                        PercentileTarget(totalLiving, upperPercentile))
         IN  [lower |-> OrZero(walk.lower), upper |-> OrZero(walk.upper)]

calculateAgeRange(distribution, lowerPercentile, upperPercentile) ==
    IF MissingOrEmpty(distribution) THEN [lower |-> 0, upper |-> 0]
    ELSE IF SumLivingFrom(distribution.items, 1, 0) = 0
    THEN [lower |-> 0, upper |-> 0]
    ELSE LET totalLiving == SumLivingFrom(distribution.items, 1, 0)
             walk == AgeRangeWalk(SortByAgeDescending(distribution.items),
                        1, 0, <<>>, <<>>,
                        DSub(FromInt(totalLiving),
                             PercentileTarget(totalLiving, lowerPercentile)),
                        DSub(FromInt(totalLiving),
                             PercentileTarget(totalLiving, upperPercentile)))
         IN  [lower |-> OrZero(walk.lower), upper |-> OrZero(walk.upper)]

\* The outcome of a call: the value returned or the error thrown.
Returned(v) == [kind |-> "return", value |-> v]

Threw(error) == [kind |-> "throw", error |-> error]

\* calculateStats with earliest and latest exchanged
calculateStatsExchanged(distribution) ==
    IF distribution = Null THEN Threw("TypeError")
    ELSE Returned(
        [totalLiving   |-> calculateTotalLiving(distribution),
         medianAge     |-> calculateMedianAge(distribution),
         peakBirthYear |-> findPeakBirthYear(distribution),
         ageRange      |-> calculateAgeRange(distribution, 10, 90),
         yearRange     |->
            [earliest |-> IF Len(distribution.items) > 0
                          THEN distribution.items[Len(distribution.items)].year
                          ELSE 0,
             latest   |-> IF Len(distribution.items) > 0
                          THEN distribution.items[1].year ELSE 0]])

\* The four derivations take a null distribution; distribution.length of
\* the yearRange does not.
calculateStats(distribution) ==
    IF distribution = Null THEN Threw("TypeError")
    ELSE Returned(
        [totalLiving   |-> calculateTotalLiving(distribution),
         medianAge     |-> calculateMedianAge(distribution),
         peakBirthYear |-> findPeakBirthYear(distribution),
         ageRange      |-> calculateAgeRange(distribution, 10, 90),
         yearRange     |->
            [earliest |-> IF Len(distribution.items) > 0
                          THEN distribution.items[1].year ELSE 0,
             latest   |-> IF Len(distribution.items) > 0
                          THEN distribution.items[Len(distribution.items)].year
                          ELSE 0]])

\* The arguments as calculateAgeDistribution leaves them: the arrays it
\* sorts (lines 26 and 46) are made by Object.keys(..).map(Number), and the
\* two objects are only read.
ArgumentsAfter(in) == in

\* distribution.sort(..): the caller's array is sorted itself
DistributionAfterSortInPlace(q) == SortByAgeDescending(q)

\* [...distribution].sort(..): a copy is sorted, the caller's array keeps
\* its order
DistributionAfterSort(q) == q

\* The caller's array after a call of the operation fn: calculateMedianAge
\* and calculateAgeRange, and calculateStats through them, reach the sort
\* when the total is not 0; the reduce of the other operations only reads.
DistributionAfter(fn, distribution) ==
    IF MissingOrEmpty(distribution) THEN distribution
    ELSE IF fn \in {"calculateMedianAge", "calculateAgeRange", "calculateStats"}
            /\ SumLivingFrom(distribution.items, 1, 0) # 0
    THEN Arr(DistributionAfterSort(distribution.items))
    ELSE distribution

\* the total of births: the half-point taken on the raw birth curve
MedianPathOfBirths(distribution) ==
    IF MissingOrEmpty(distribution) THEN "empty"
    ELSE IF SumLivingFrom(distribution.items, 1, 0) = 0 THEN "zero"
    ELSE IF MedianWalk(SortByAgeDescending(distribution.items), 1, 0,
                       SumBirthsFrom(distribution.items, 1, 0)) # <<>>
    THEN "loop"
    ELSE "fallback"

\* The return statement calculateMedianAge leaves through: line 79
\* ("empty"), line 86 ("zero"), line 99 inside the loop ("loop") or line
\* 105 after it ("fallback").
MedianPath(distribution) ==
    IF MissingOrEmpty(distribution) THEN "empty"
    ELSE IF SumLivingFrom(distribution.items, 1, 0) = 0 THEN "zero"
    ELSE IF MedianWalk(SortByAgeDescending(distribution.items), 1, 0,
                       SumLivingFrom(distribution.items, 1, 0)) # <<>>
    THEN "loop"
    ELSE "fallback"


(***************************************************************************)
(* Inputs                                                                  *)
(***************************************************************************)
\* the largest number of years in a birth series
MaxSeriesLen == 2

\* the largest number of entries in a distribution handed to the aggregator
MaxDistLen == 2

\* birth years: ages 84, 83, 25, 0 and -1 (a year after CURRENT_YEAR)
YearChoices == {1941, 1942, 2000, 2025, 2026}

\* birth counts: a negative one, zero, and one whose product with 0.7 lies
\* halfway between two integers (115.5)
CountChoices == {-5, 0, 165}

\* survival probabilities in thousandths: an invalid negative one, 0.995, 1.0
ProbChoices == {-250, 995, 1000}

TableYearChoices == {2000, 2024}

\* lengths of a survival array: ages 0..24 and ages 0..100
TableLenChoices == {25, 101}

\* all functions from a subset of at most n elements of D to R
PartialFunctions(D, R, n) ==
    UNION {[S -> R] : S \in {T \in SUBSET D : Cardinality(T) <= n}}

\* an array of len probabilities, all k / 1000
ConstantTable(len, k) == [age \in 0..(len - 1) |-> k]

TableChoices ==
    {ConstantTable(len, k) : len \in TableLenChoices, k \in ProbChoices}

\* the series of the first scenario of the specification, section 8
ScenarioSeries == (1996 :> 100) @@ (2000 :> 200) @@ (2004 :> 100)

\* the example of the About page: 1,000 babies born in 2000
AboutSeries == (2000 :> 1000)

\* a name with a year of no births between two years of births
GapSeries == (1996 :> 100) @@ (2000 :> 0) @@ (2004 :> 200)

\* a negative count in a year after CURRENT_YEAR that offsets the count of
\* 2000
OffsetSeries == (2000 :> 5) @@ (2026 :> -5)

SeriesChoices ==
    {Obj(f) : f \in PartialFunctions(YearChoices, CountChoices, MaxSeriesLen)
                    \cup {ScenarioSeries, AboutSeries, GapSeries,
                          OffsetSeries}}

LifeTableChoices ==
    {Obj(f) : f \in PartialFunctions(TableYearChoices, TableChoices,
                                     Cardinality(TableYearChoices))}

\* a survival table of the shape the data scripts write: ages 0..100
ScenarioTables == Obj((2000 :> ConstantTable(101, 1000)))

EstimatorInputs ==
    {[name |-> "Oliver", gender |-> "male",
      babyNamesData |-> b, lifeTablesData |-> t] :
        b \in SeriesChoices, t \in LifeTableChoices}
    \cup
    {[name |-> n, gender |-> "male",
      babyNamesData |-> b, lifeTablesData |-> t] :
        n \in {"", "Oliver"},
        b \in {Null, Obj(ScenarioSeries)},
        t \in {Null, ScenarioTables}}

EntryChoices ==
    {[year |-> y, births |-> b, living |-> l, age |-> CURRENT_YEAR - y] :
        y \in {1996, 2000, 2004}, b \in {100, 200}, l \in {0, 100, 200}}

DistributionChoices ==
    {Null} \cup
    {Arr(q) : q \in UNION {[1..n -> EntryChoices] : n \in 0..MaxDistLen}}

\* pairs <<lowerPercentile, upperPercentile>>: the defaults, the quartiles,
\* the extremes, and twice the median
PercentileChoices == {<<10, 90>>, <<25, 75>>, <<0, 100>>, <<50, 50>>}

\* by how much the living count of one entry is raised
GainChoices == {1, 100}

\* the distribution with the living count of entry i raised by gain
WithGain(d, i, gain) ==
    Arr([d.items EXCEPT ![i] = [@ EXCEPT !.living = @ + gain]])

(***************************************************************************)
(* The data loader                                                         *)
(***************************************************************************)
\* the largest number of calls of loadBabyNames and loadLifeTables
MaxLoads == 3

Genders == {"male", "female"}

Slots == {"babyNamesBoys", "babyNamesGirls", "lifeTablesMale", "lifeTablesFemale"}

\* const cacheKey = gender === 'male' ? .. : ..
CacheKey(fn, gender) ==
    IF fn = "loadBabyNames"
    THEN (IF gender = "male" THEN "babyNamesBoys" ELSE "babyNamesGirls")
    ELSE (IF gender = "male" THEN "lifeTablesMale" ELSE "lifeTablesFemale")

\* const filename = ..
Filename(fn, gender) ==
    IF fn = "loadBabyNames"
    THEN (IF gender = "male" THEN "baby-names-boys.json"
          ELSE "baby-names-girls.json")
    ELSE "life-tables-" \o gender \o ".json"

Files ==
    {Filename(fn, g) : fn \in {"loadBabyNames", "loadLifeTables"}, g \in Genders}

\* a string value, where null is possible too
Str(text) == [kind |-> "string", text |-> text]

UpperCase ==
    <<"A", "B", "C", "D", "E", "F", "G", "H", "I", "J", "K", "L", "M",
      "N", "O", "P", "Q", "R", "S", "T", "U", "V", "W", "X", "Y", "Z">>

LowerCase ==
    <<"a", "b", "c", "d", "e", "f", "g", "h", "i", "j", "k", "l", "m",
      "n", "o", "p", "q", "r", "s", "t", "u", "v", "w", "x", "y", "z">>

\* String.prototype.toLowerCase
ToLowerCase(chars) ==
    [i \in 1..Len(chars) |->
        IF \E k \in 1..Len(UpperCase) : UpperCase[k] = chars[i]
        THEN LowerCase[CHOOSE k \in 1..Len(UpperCase) : UpperCase[k] = chars[i]]
        ELSE chars[i]]

\* String.prototype.trim: the text between the first and the last character
\* that is not a space
Trim(chars) ==
    IF \A i \in 1..Len(chars) : chars[i] = " " THEN <<>>
    ELSE SubSeq(chars,
                CHOOSE i \in 1..Len(chars) :
                    chars[i] # " " /\ \A j \in 1..(i - 1) : chars[j] = " ",
                CHOOSE i \in 1..Len(chars) :
                    chars[i] # " " /\ \A j \in (i + 1)..Len(chars) : chars[j] = " ")

\* the characters as one string, as a template literal puts them
RECURSIVE Join(_)
Join(chars) == IF chars = <<>> THEN "" ELSE Head(chars) \o Join(Tail(chars))

\* An object keyed by names: Object.keys gives the keys in the order in
\* which they were written.
Names(keys, f) == [kind |-> "object", keys |-> keys, entries |-> f]

\* names are sequences of characters
Oliver == <<"O", "l", "i", "v", "e", "r">>

Olivia == <<"O", "l", "i", "v", "i", "a">>

Alex == <<"A", "l", "e", "x">>

\* what the data files of the site hold: a few names, and one survival
\* array for the birth year 2000
FileData(file) ==
    CASE file = "baby-names-boys.json" ->
            Names(<<Oliver, Alex>>,
                  (Oliver :> Obj(ScenarioSeries)) @@ (Alex :> Obj(AboutSeries)))
      [] file = "baby-names-girls.json" ->
            Names(<<Olivia, Alex>>,
                  (Olivia :> Obj(GapSeries)) @@ (Alex :> Obj(ScenarioSeries)))
      [] file = "life-tables-male.json" ->
            Obj((2000 :> ConstantTable(101, 995)))
      [] file = "life-tables-female.json" ->
            Obj((2000 :> ConstantTable(101, 1000)))

(***************************************************************************)
(* Name lookup                                                             *)
(***************************************************************************)
\* Object.keys(babyNamesData).some(key => key.toLowerCase() === lowerCaseName)
\* after the exact test normalizedName in babyNamesData
nameExists(name, ofGender, babyNamesData) ==
    IF name = <<>> \/ babyNamesData = Null THEN FALSE
    ELSE \/ Trim(name) \in DOMAIN babyNamesData.entries
         \/ \E i \in 1..Len(babyNamesData.keys) :
                ToLowerCase(babyNamesData.keys[i]) = ToLowerCase(Trim(name))

\* the first key, in the order of Object.keys, that is the name in lower case
MatchingKey(name, babyNamesData) ==
    CHOOSE i \in 1..Len(babyNamesData.keys) :
        /\ ToLowerCase(babyNamesData.keys[i]) = ToLowerCase(Trim(name))
        /\ \A j \in 1..(i - 1) :
                ToLowerCase(babyNamesData.keys[j]) # ToLowerCase(Trim(name))

getNameData(name, babyNamesData) ==
    IF name = <<>> \/ babyNamesData = Null THEN Null
    ELSE IF Trim(name) \in DOMAIN babyNamesData.entries
    THEN babyNamesData.entries[Trim(name)]
    ELSE IF \E i \in 1..Len(babyNamesData.keys) :
                ToLowerCase(babyNamesData.keys[i]) = ToLowerCase(Trim(name))
    THEN babyNamesData.entries[babyNamesData.keys[MatchingKey(name, babyNamesData)]]
    ELSE Null

\* String.prototype.startsWith
StartsWith(chars, prefix) ==
    Len(prefix) <= Len(chars) /\ SubSeq(chars, 1, Len(prefix)) = prefix

\* String.prototype.includes
Includes(chars, part) ==
    \E i \in 0..(Len(chars) - Len(part)) :
        SubSeq(chars, i + 1, i + Len(part)) = part

\* the characters of the model in the order of their UTF-16 code units
CodeUnits == <<" ">> \o UpperCase \o LowerCase

CodeUnit(c) == CHOOSE k \in 1..Len(CodeUnits) : CodeUnits[k] = c

\* the order of Array.prototype.sort without a comparator
Precedes(a, b) ==
    \E k \in 1..Len(b) :
        /\ k - 1 <= Len(a)
        /\ SubSeq(a, 1, k - 1) = SubSeq(b, 1, k - 1)
        /\ (k > Len(a) \/ CodeUnit(a[k]) < CodeUnit(b[k]))

\* names.sort()
RECURSIVE SortNames(_)
SortNames(q) ==
    IF q = <<>> THEN <<>>
    ELSE LET rest   == SortNames(Tail(q))
             before == Cardinality({i \in 1..Len(rest) :
                                       ~Precedes(Head(q), rest[i])})
         IN  SubSeq(rest, 1, before) \o <<Head(q)>>
             \o SubSeq(rest, before + 1, Len(rest))

\* names.slice(0, limit) for limit >= 0
Slice(q, limit) == SubSeq(q, 1, IF limit < Len(q) THEN limit ELSE Len(q))

\* allNames.filter(name => name.toLowerCase().startsWith(normalizedQuery))
RECURSIVE FilterStartsWith(_, _)
FilterStartsWith(allNames, normalizedQuery) ==
    IF allNames = <<>> THEN <<>>
    ELSE (IF StartsWith(ToLowerCase(Head(allNames)), normalizedQuery)
          THEN <<Head(allNames)>> ELSE <<>>)
         \o FilterStartsWith(Tail(allNames), normalizedQuery)

\* allNames.filter(name => name.toLowerCase().includes(normalizedQuery) &&
\*                         !name.toLowerCase().startsWith(normalizedQuery))
RECURSIVE FilterContains(_, _)
FilterContains(allNames, normalizedQuery) ==
    IF allNames = <<>> THEN <<>>
    ELSE (IF /\ Includes(ToLowerCase(Head(allNames)), normalizedQuery)
             /\ ~StartsWith(ToLowerCase(Head(allNames)), normalizedQuery)
          THEN <<Head(allNames)>> ELSE <<>>)
         \o FilterContains(Tail(allNames), normalizedQuery)

\* searchNames with the names that contain the query put first
searchNamesContainsFirst(query, babyNamesData, limit) ==
    IF query = <<>> \/ babyNamesData = Null THEN <<>>
    ELSE IF Len(ToLowerCase(Trim(query))) = 0 THEN <<>>
    ELSE IF Len(FilterStartsWith(babyNamesData.keys, ToLowerCase(Trim(query)))) >= limit
    THEN SortNames(Slice(FilterStartsWith(babyNamesData.keys, ToLowerCase(Trim(query))), limit))
    ELSE SortNames(Slice(
            FilterContains(babyNamesData.keys, ToLowerCase(Trim(query)))
            \o FilterStartsWith(babyNamesData.keys, ToLowerCase(Trim(query))),
            limit))

searchNames(query, babyNamesData, limit) ==
    IF query = <<>> \/ babyNamesData = Null THEN <<>>
    ELSE IF Len(ToLowerCase(Trim(query))) = 0 THEN <<>>
    ELSE IF Len(FilterStartsWith(babyNamesData.keys, ToLowerCase(Trim(query)))) >= limit
    THEN SortNames(Slice(FilterStartsWith(babyNamesData.keys, ToLowerCase(Trim(query))), limit))
    ELSE SortNames(Slice(
            FilterStartsWith(babyNamesData.keys, ToLowerCase(Trim(query)))
            \o FilterContains(babyNamesData.keys, ToLowerCase(Trim(query))),
            limit))

\* the largest number of names in a dataset handed to searchNames
MaxNames == 3

Nicola == <<"N", "i", "c", "o", "l", "a">>

Viola == <<"V", "i", "o", "l", "a">>

NamePool == {Oliver, Olivia, Nicola, Viola, Alex}

\* the sequences of at most n different elements of S
RECURSIVE Arrangements(_, _)
Arrangements(S, n) ==
    IF n = 0 THEN {<<>>}
    ELSE {<<>>} \cup {<<x>> \o q : x \in S, q \in Arrangements(S, n - 1)}

DatasetChoices ==
    {Null} \cup
    {Names(keys, [k \in {keys[i] : i \in 1..Len(keys)} |-> Obj(AboutSeries)]) :
        keys \in {q \in Arrangements(NamePool, MaxNames) :
                     \A i, j \in 1..Len(q) : i # j => q[i] # q[j]}}

QueryChoices ==
    {<<>>, <<" ">>, <<"o", "l">>, <<"O", "L", " ">>, <<"o", "l", "i">>,
     <<"l", "a">>, <<"x">>, <<"z">>}

LimitChoices == {0, 1, 2, 10}

SearchInputs ==
    {[kind |-> "search", query |-> q, babyNamesData |-> d, limit |-> l] :
        q \in QueryChoices, d \in DatasetChoices, l \in LimitChoices}

\* names typed into the search: none, names of the data files in several
\* spellings, and a name of neither file
NameChoices ==
    {<<>>, Oliver, <<"o", "l", "i", "v", "e", "r">>, Olivia, Alex,
     <<" ", "A", "l", "e", "x">>, <<"Z", "e", "d">>}

(***************************************************************************)
(* The caller: it obtains a distribution, from the estimator or from       *)
(* elsewhere, and then calls one operation of the aggregator on it.        *)
(***************************************************************************)
VARIABLES
    pc,            \* "start", "arguments", "distribution" or "done"
    args,          \* the arguments of the call of calculateAgeDistribution
    distribution,  \* the distribution in the caller's hands
    result         \* the aggregator operation called and its outcome

\* the data loader
VARIABLES
    cache,         \* the four slots of the in-memory cache
    inflight,      \* the calls of a load function that await their fetch
    loads,         \* the number of calls of a load function made so far
    fetched,       \* per file, the fetches that succeeded since clearCache
    lastCall       \* the call of the loader that completed last

\* the state of the Home page; its distribution is the variable above
VARIABLES
    gender,        \* useState('male')
    searchedName,  \* useState('')
    stats,         \* useState(null)
    loading,       \* useState(true)
    error,         \* useState(null)
    dataLoaded,    \* useState(false)
    maleData,      \* useState(null)
    femaleData     \* useState(null)

\* the state of NameSearchInput
VARIABLES
    inputValue,       \* useState('')
    suggestions,      \* useState([])
    showSuggestions,  \* useState(false)
    selectedIndex,    \* useState(-1)
    babyNamesData,    \* the prop: the names of the selected gender
    effectPending,    \* a dependency of the effect changed in the last render
    lastSubmit        \* the name last given to onSubmit, until the next
                      \* edit or focus of the input

calcVars == <<pc, args, distribution, result>>

loaderVars == <<cache, inflight, loads, fetched, lastCall>>

pageVars == <<gender, searchedName, stats, loading, error, dataLoaded, maleData, femaleData>>

inputVars ==
    <<inputValue, suggestions, showSuggestions, selectedIndex, babyNamesData,
      effectPending, lastSubmit>>

vars == <<calcVars, loaderVars, pageVars, inputVars>>

\* what the calculations and the loader's own callers leave alone
outsideCalc == <<loaderVars, pageVars, inputVars>>

outsideLoader == <<calcVars, pageVars, inputVars>>

outsideInput == <<calcVars, loaderVars, pageVars>>

NoArgs == [kind |-> "none"]

NoResult == [kind |-> "none"]

\* the caller of the calculations before its first step
CalcInit ==
    /\ pc = "start"
    /\ args = NoArgs
    /\ distribution = Arr(<<>>)
    /\ result = NoResult

\* let cache = { babyNamesBoys: null, .. }, and nothing loaded yet
LoaderInit ==
    /\ cache = [slot \in Slots |-> Null]
    /\ inflight = {}
    /\ loads = 0
    /\ fetched = [file \in Files |-> 0]
    /\ lastCall = NoResult

\* the Home page at its first render
PageInit ==
    /\ gender = "male"
    /\ searchedName = <<>>
    /\ stats = Null
    /\ loading = TRUE
    /\ error = Null
    /\ dataLoaded = FALSE
    /\ maleData = Null
    /\ femaleData = Null

\* NameSearchInput at its first render, which Home makes once the data is
\* loaded, with the names of the gender selected first
InputInit ==
    /\ inputValue = <<>>
    /\ suggestions = <<>>
    /\ showSuggestions = FALSE
    /\ selectedIndex = -1
    /\ babyNamesData = FileData("baby-names-boys.json")
    /\ effectPending = TRUE
    /\ lastSubmit = NoResult

Init == CalcInit /\ LoaderInit /\ PageInit /\ InputInit

\* the caller gets hold of the arguments of calculateAgeDistribution
Receive ==
    /\ pc = "start"
    /\ \E in \in EstimatorInputs : args' = in
    /\ pc' = "arguments"
    /\ UNCHANGED <<distribution, result, outsideCalc>>

Estimate ==
    /\ pc = "arguments"
    /\ distribution' = calculateAgeDistribution(args.name, args.gender,
                           args.babyNamesData, args.lifeTablesData)
    /\ args' = ArgumentsAfter(args)
    /\ pc' = "distribution"
    /\ UNCHANGED <<result, outsideCalc>>

Supply ==
    /\ pc = "start"
    /\ \E d \in DistributionChoices : distribution' = d
    /\ pc' = "distribution"
    /\ UNCHANGED <<args, result, outsideCalc>>

Call(fn, outcome) ==
    /\ pc = "distribution"
    /\ result' = [kind |-> "call", fn |-> fn, outcome |-> outcome]
    /\ distribution' = DistributionAfter(fn, distribution)
    /\ pc' = "done"
    /\ UNCHANGED <<args, outsideCalc>>

CallTotalLiving ==
    Call("calculateTotalLiving", Returned(calculateTotalLiving(distribution)))

CallStats == Call("calculateStats", calculateStats(distribution))

\* calculateMedianAge, with the return statement it left through
CallMedianAge ==
    /\ pc = "distribution"
    /\ result' = [kind |-> "call", fn |-> "calculateMedianAge",
                  path |-> MedianPath(distribution),
                  outcome |-> Returned(calculateMedianAge(distribution))]
    /\ distribution' = DistributionAfter("calculateMedianAge", distribution)
    /\ pc' = "done"
    /\ UNCHANGED <<args, outsideCalc>>

CallPeakBirthYear ==
    Call("findPeakBirthYear", Returned(findPeakBirthYear(distribution)))

\* calculateAgeRange with explicit percentiles
CallAgeRange ==
    /\ pc = "distribution"
    /\ \E p \in PercentileChoices :
        result' = [kind |-> "call", fn |-> "calculateAgeRange",
                   lowerPercentile |-> p[1], upperPercentile |-> p[2],
                   outcome |-> Returned(calculateAgeRange(distribution,
                                                          p[1], p[2]))]
    /\ distribution' = DistributionAfter("calculateAgeRange", distribution)
    /\ pc' = "done"
    /\ UNCHANGED <<args, outsideCalc>>

\* calculateMedianAge of the distribution and of a second distribution that
\* differs from it by a larger living count at one entry
CompareMedianAges ==
    /\ pc = "distribution"
    /\ distribution # Null
    /\ \E i \in 1..Len(distribution.items), gain \in GainChoices :
        result' = [kind |-> "compare", fn |-> "calculateMedianAge",
                   index |-> i,
                   second |-> WithGain(distribution, i, gain),
                   first |-> Returned(calculateMedianAge(distribution)),
                   outcome |-> Returned(calculateMedianAge(
                                   WithGain(distribution, i, gain)))]
    /\ distribution' = DistributionAfter("calculateMedianAge", distribution)
    /\ pc' = "done"
    /\ UNCHANGED <<args, outsideCalc>>

Next ==
    \/ Receive
    \/ Estimate
    \/ Supply
    \/ CallTotalLiving
    \/ CallStats
    \/ CallMedianAge
    \/ CallPeakBirthYear
    \/ CallAgeRange
    \/ CompareMedianAges

Spec == Init /\ [][Next]_vars

(***************************************************************************)
(* The callers of the data loader.  A load function runs without a break   *)
(* up to its await: it reads the cache and, when the slot is empty, has    *)
(* fetch called.  The rest of it runs when the fetch has settled.          *)
(***************************************************************************)
LoadCompleted(id, fn, ofGender, loadOutcome) ==
    [kind |-> "load", id |-> id, fn |-> fn, gender |-> ofGender,
     cacheKey |-> CacheKey(fn, ofGender), outcome |-> loadOutcome]

\* loadBabyNames(ofGender) or loadLifeTables(ofGender) up to its await
LoadStep(fn, ofGender) ==
    /\ loads < MaxLoads
    /\ loads' = loads + 1
    /\ IF cache[CacheKey(fn, ofGender)] # Null
       THEN /\ lastCall' = LoadCompleted(loads + 1, fn, ofGender,
                                         Returned(cache[CacheKey(fn, ofGender)]))
            /\ UNCHANGED inflight
       ELSE /\ inflight' = inflight \cup
                    {[id |-> loads + 1, fn |-> fn, gender |-> ofGender]}
            /\ UNCHANGED lastCall
    /\ UNCHANGED <<cache, fetched>>

\* the response is ok and its JSON parses: cache[cacheKey] = data
SucceedStep(call) ==
    /\ call \in inflight
    /\ inflight' = inflight \ {call}
    /\ cache' = [cache EXCEPT ![CacheKey(call.fn, call.gender)] =
                    FileData(Filename(call.fn, call.gender))]
    /\ fetched' = [fetched EXCEPT ![Filename(call.fn, call.gender)] = @ + 1]
    /\ lastCall' = LoadCompleted(call.id, call.fn, call.gender,
                            Returned(FileData(Filename(call.fn, call.gender))))
    /\ UNCHANGED loads

\* fetch rejects, the response is not ok, or its JSON does not parse: the
\* catch block throws a new Error
FailStep(call) ==
    /\ call \in inflight
    /\ inflight' = inflight \ {call}
    /\ lastCall' = LoadCompleted(call.id, call.fn, call.gender, Threw("Error"))
    /\ UNCHANGED <<cache, loads, fetched>>

LoadBabyNames ==
    /\ \E ofGender \in Genders : LoadStep("loadBabyNames", ofGender)
    /\ UNCHANGED outsideLoader

LoadLifeTables ==
    /\ \E ofGender \in Genders : LoadStep("loadLifeTables", ofGender)
    /\ UNCHANGED outsideLoader

FetchSucceeds ==
    /\ \E call \in inflight : SucceedStep(call)
    /\ UNCHANGED outsideLoader

FetchFails ==
    /\ \E call \in inflight : FailStep(call)
    /\ UNCHANGED outsideLoader

\* clearCache(); the counts of fetches start again
ClearCache ==
    /\ cache' = [slot \in Slots |-> Null]
    /\ fetched' = [file \in Files |-> 0]
    /\ lastCall' = [kind |-> "clearCache"]
    /\ UNCHANGED <<inflight, loads, outsideLoader>>

LoaderNext ==
    \/ LoadBabyNames
    \/ LoadLifeTables
    \/ FetchSucceeds
    \/ FetchFails
    \/ ClearCache

LoaderSpec == Init /\ [][LoaderNext]_vars


(***************************************************************************)
(* The caller of searchNames                                               *)
(***************************************************************************)
AskNames ==
    /\ pc = "start"
    /\ \E in \in SearchInputs : args' = in
    /\ pc' = "arguments"
    /\ UNCHANGED <<distribution, result, outsideCalc>>

CallSearchNames ==
    /\ pc = "arguments"
    /\ result' = [kind |-> "call", fn |-> "searchNames",
                  outcome |-> Returned(searchNames(args.query,
                                  args.babyNamesData, args.limit))]
    /\ pc' = "done"
    /\ UNCHANGED <<args, distribution, outsideCalc>>

SearchNext ==
    \/ AskNames
    \/ CallSearchNames

SearchSpec == Init /\ [][SearchNext]_vars

(***************************************************************************)
(* The Home page.  The effect of its first render calls loadAllData for    *)
(* both genders, which calls the four load functions before anything else  *)
(* runs; what follows the await of loadData runs when the last fetch has   *)
(* succeeded or the first has failed.                                      *)
(***************************************************************************)
OtherGender(g) == IF g = "male" THEN "female" ELSE "male"

DataOf(g) == IF g = "male" THEN maleData ELSE femaleData

\* the calls of the load functions that loadAllData('male') and
\* loadAllData('female') make, in their order
MountCalls ==
    {[id |-> 1, fn |-> "loadBabyNames", gender |-> "male"],
     [id |-> 2, fn |-> "loadLifeTables", gender |-> "male"],
     [id |-> 3, fn |-> "loadBabyNames", gender |-> "female"],
     [id |-> 4, fn |-> "loadLifeTables", gender |-> "female"]}

\* useEffect(() => { .. loadData(); }, []) up to the await
Mount ==
    /\ loads = 0
    /\ loading' = TRUE
    /\ error' = Null
    /\ inflight' = MountCalls
    /\ loads' = Cardinality(MountCalls)
    /\ UNCHANGED <<cache, fetched, lastCall, calcVars, inputVars>>
    /\ UNCHANGED <<gender, searchedName, stats, dataLoaded, maleData, femaleData>>

\* loadData after the await: lines 37-39 and the finally block
LoadDataFulfilled ==
    /\ maleData' = [babyNames |-> cache'["babyNamesBoys"],
                    lifeTables |-> cache'["lifeTablesMale"]]
    /\ femaleData' = [babyNames |-> cache'["babyNamesGirls"],
                      lifeTables |-> cache'["lifeTablesFemale"]]
    /\ dataLoaded' = TRUE
    /\ loading' = FALSE
    /\ UNCHANGED <<gender, searchedName, stats, error>>

\* the catch block without the finally block
LoadDataRejectedStillLoading ==
    /\ error' = Str("Failed to load data files. Please ensure you have processed the ONS data. See DATA_SOURCES.md for instructions.")
    /\ UNCHANGED <<gender, searchedName, stats, loading, dataLoaded, maleData, femaleData>>

\* loadData when the await throws: the catch block and the finally block
LoadDataRejected ==
    /\ error' = Str("Failed to load data files. Please ensure you have processed the ONS data. See DATA_SOURCES.md for instructions.")
    /\ loading' = FALSE
    /\ UNCHANGED <<gender, searchedName, stats, dataLoaded, maleData, femaleData>>

\* a fetch succeeds; when it is the last of the four, loadData goes on
DataArrives ==
    /\ \E call \in inflight : SucceedStep(call)
    /\ IF loading /\ inflight' = {} THEN LoadDataFulfilled
       ELSE UNCHANGED pageVars
    /\ UNCHANGED <<calcVars, inputVars>>

\* a fetch fails; the first failure rejects both Promise.all
DataFails ==
    /\ \E call \in inflight : FailStep(call)
    /\ IF loading THEN LoadDataRejected ELSE UNCHANGED pageVars
    /\ UNCHANGED <<calcVars, inputVars>>

\* handleNameSearch that empties the results when the name is not found
handleNameSearchResets(name) ==
    IF name = <<>> \/ ~dataLoaded
    THEN UNCHANGED <<pageVars, distribution>>
    ELSE IF ~nameExists(name, gender, DataOf(gender).babyNames)
    THEN /\ error' =
            IF nameExists(name, OtherGender(gender), DataOf(OtherGender(gender)).babyNames)
            THEN Str("\"" \o Join(name) \o "\" was not found in " \o gender \o " names, but exists in " \o OtherGender(gender) \o " names. Try switching the gender selector.")
            ELSE Str("\"" \o Join(name) \o "\" was not found in the dataset. Please check the spelling or try a different name. Note: Very rare names may not be included in the data.")
         /\ distribution' = Arr(<<>>)
         /\ stats' = Null
         /\ UNCHANGED <<gender, searchedName, loading, dataLoaded, maleData, femaleData>>
    ELSE IF getNameData(name, DataOf(gender).babyNames) = Null
    THEN /\ error' = Str("No data found for \"" \o Join(name) \o "\"")
         /\ UNCHANGED <<gender, searchedName, stats, loading, dataLoaded, maleData, femaleData, distribution>>
    ELSE /\ error' = Null
         /\ distribution' = calculateAgeDistribution(Join(name), gender, getNameData(name, DataOf(gender).babyNames), DataOf(gender).lifeTables)
         /\ stats' = calculateStats(distribution').value
         /\ searchedName' = name
         /\ UNCHANGED <<gender, loading, dataLoaded, maleData, femaleData>>

handleNameSearch(name) ==
    IF name = <<>> \/ ~dataLoaded
    THEN UNCHANGED <<pageVars, distribution>>
    ELSE IF ~nameExists(name, gender, DataOf(gender).babyNames)
    THEN /\ error' =
            IF nameExists(name, OtherGender(gender), DataOf(OtherGender(gender)).babyNames)
            THEN Str("\"" \o Join(name) \o "\" was not found in " \o gender \o " names, but exists in " \o OtherGender(gender) \o " names. Try switching the gender selector.")
            ELSE Str("\"" \o Join(name) \o "\" was not found in the dataset. Please check the spelling or try a different name. Note: Very rare names may not be included in the data.")
         /\ UNCHANGED <<gender, searchedName, stats, loading, dataLoaded, maleData, femaleData, distribution>>
    ELSE IF getNameData(name, DataOf(gender).babyNames) = Null
    THEN /\ error' = Str("No data found for \"" \o Join(name) \o "\"")
         /\ UNCHANGED <<gender, searchedName, stats, loading, dataLoaded, maleData, femaleData, distribution>>
    ELSE /\ error' = Null
         /\ distribution' = calculateAgeDistribution(Join(name), gender, getNameData(name, DataOf(gender).babyNames), DataOf(gender).lifeTables)
         /\ stats' = calculateStats(distribution').value
         /\ searchedName' = name
         /\ UNCHANGED <<gender, loading, dataLoaded, maleData, femaleData>>

\* handleGenderChange that only sets the gender
handleGenderChangeKeepsResults(newGender) ==
    /\ gender' = newGender
    /\ UNCHANGED <<distribution, stats, error>>
    /\ UNCHANGED <<searchedName, loading, dataLoaded, maleData, femaleData>>

handleGenderChange(newGender) ==
    /\ gender' = newGender
    /\ IF searchedName = <<>> THEN UNCHANGED <<distribution, stats, error>>
       ELSE IF nameExists(searchedName, newGender, DataOf(newGender).babyNames)
       THEN /\ distribution' = calculateAgeDistribution(Join(searchedName), newGender, getNameData(searchedName, DataOf(newGender).babyNames), DataOf(newGender).lifeTables)
            /\ stats' = calculateStats(distribution').value
            /\ error' = Null
       ELSE /\ error' = Str("\"" \o Join(searchedName) \o "\" was not found in " \o newGender \o " names. Try searching for a different name.")
            /\ distribution' = Arr(<<>>)
            /\ stats' = Null
    /\ UNCHANGED <<searchedName, loading, dataLoaded, maleData, femaleData>>

NameSearch ==
    /\ \E name \in NameChoices : handleNameSearch(name)
    /\ UNCHANGED <<pc, args, result, loaderVars, inputVars>>

GenderChange ==
    /\ \E newGender \in Genders : handleGenderChange(newGender)
    /\ UNCHANGED <<pc, args, result, loaderVars, inputVars>>

PageNext ==
    \/ Mount
    \/ DataArrives
    \/ DataFails
    \/ NameSearch
    \/ GenderChange

PageSpec == Init /\ [][PageNext]_vars

\* every fetch settles, and the effect of the first render runs
PageFairSpec ==
    PageSpec /\ WF_vars(Mount) /\ WF_vars(DataArrives \/ DataFails)

(***************************************************************************)
(* Properties of calculateAgeDistribution                                  *)
(***************************************************************************)
\* the estimator was called with a name, a birth series and a survival table
ValidCall ==
    /\ pc \in {"distribution", "done"}
    /\ args # NoArgs
    /\ args.name # ""
    /\ args.babyNamesData # Null
    /\ args.lifeTablesData # Null

Series == args.babyNamesData.entries

Tables == args.lifeTablesData.entries

Entries == distribution.items

\* the years whose survival array has an element at the age
Definers(age) == {y \in DOMAIN Tables : age \in DOMAIN Tables[y]}

Newest(S) == CHOOSE y \in S : \A z \in S : y >= z

\* n / d rounded to the nearest integer, a tie going up
RoundHalfUp(n, d) == (2 * n + d) \div (2 * d)

ProbabilitiesInUnitInterval ==
    \A y \in DOMAIN Tables : \A a \in DOMAIN Tables[y] :
        0 <= Tables[y][a] /\ Tables[y][a] <= PerMille

\* C1: with integer birth counts and every probability of the survival
\* table in [0, 1], every entry of the distribution has
\* 0 <= living <= births.
C1_LivingWithinBirths ==
    (ValidCall /\ ProbabilitiesInUnitInterval) =>
        \A i \in 1..Len(Entries) :
            0 <= Entries[i].living /\ Entries[i].living <= Entries[i].births

\* C2: every birth year y of the series with births > 0 and y <= 2025 has
\* an entry in the distribution, whose age is 2025 - y and is >= 0.
C2_AgeOfCohort ==
    ValidCall =>
        \A y \in DOMAIN Series :
            (Series[y] > 0 /\ y <= 2025) =>
                \E i \in 1..Len(Entries) :
                    /\ Entries[i].year = y
                    /\ Entries[i].age = 2025 - y
                    /\ Entries[i].age >= 0

C2_Witness ==
    /\ ValidCall
    /\ pc = "distribution"
    /\ \E i \in 1..Len(Entries) :
        /\ Entries[i].births > 0
        /\ Entries[i].year = 2000
        /\ Entries[i].age = 25
    /\ \E i \in 1..Len(Entries) : Entries[i].year = 2025 /\ Entries[i].age = 0

\* C3: for a birth series of non-negative counts the distribution is
\* strictly ascending by year (so no year occurs twice), has exactly one
\* entry for each year whose count is not zero, and has no entry for a year
\* whose count is zero or absent.
C3_OneEntryPerBirthYear ==
    (ValidCall /\ \A y \in DOMAIN Series : Series[y] >= 0) =>
        /\ \A i \in 1..(Len(Entries) - 1) :
                Entries[i].year < Entries[i + 1].year
        /\ \A y \in DOMAIN Series :
                Cardinality({i \in 1..Len(Entries) : Entries[i].year = y})
                    = IF Series[y] # 0 THEN 1 ELSE 0
        /\ \A i \in 1..Len(Entries) : Entries[i].year \in DOMAIN Series

C3_Witness ==
    /\ ValidCall
    /\ pc = "distribution"
    /\ \A y \in DOMAIN Series : Series[y] >= 0
    /\ \E y \in DOMAIN Series : Series[y] = 0
    /\ Len(Entries) = 2
    /\ Cardinality(DOMAIN Series) = 3

\* C4: a birth year after the reference year is skipped: no entry of the
\* distribution has an age < 0.
C4_FutureYearSkipped ==
    ValidCall => \A i \in 1..Len(Entries) : Entries[i].age >= 0

\* C5: a negative birth count is coerced to zero or skipped: no entry of
\* the distribution has births < 0.
C5_NegativeCountSkipped ==
    ValidCall => \A i \in 1..Len(Entries) : Entries[i].births >= 0

\* C6: when the survival table has a probability p for the birth year at
\* the cohort's age, living = round(births * p) with that p, whatever the
\* tables of other years hold; p = 1.0 gives living = births, and 1000
\* births with p = 0.995 give 995.
C6_ExactLookup ==
    ValidCall =>
        \A i \in 1..Len(Entries) :
            (Entries[i].year \in Definers(Entries[i].age)) =>
                LET k == Tables[Entries[i].year][Entries[i].age]
                IN  /\ Entries[i].living =
                            MathRound(MulInt(Entries[i].births, TableValue(k)))
                    /\ k = 1000 => Entries[i].living = Entries[i].births
                    /\ (k = 995 /\ Entries[i].births = 1000) =>
                            Entries[i].living = 995

C6_Witness ==
    /\ ValidCall
    /\ pc = "distribution"
    /\ Len(Entries) = 1
    /\ Entries[1].year = 2000
    /\ Entries[1].births = 1000
    /\ Entries[1].living = 995
    /\ Definers(25) = {2000, 2024}
    /\ Tables[2000][25] = 995
    /\ Tables[2024][25] = 1000

\* C7: when the survival table has no probability for the birth year at
\* the cohort's age and the table of some other year has one at that age,
\* living = round(births * p) for the p of the latest such year, not for
\* the linear approximation.
C7_CrossYearFallback ==
    ValidCall =>
        \A i \in 1..Len(Entries) :
            (/\ Entries[i].year \notin Definers(Entries[i].age)
             /\ Definers(Entries[i].age) # {}) =>
                Entries[i].living =
                    MathRound(MulInt(Entries[i].births,
                        TableValue(Tables[Newest(Definers(Entries[i].age))]
                                         [Entries[i].age])))

C7_Witness ==
    /\ ValidCall
    /\ pc = "distribution"
    /\ \E i \in 1..Len(Entries) :
        /\ Entries[i].year = 1942
        /\ Entries[i].births = 165
        /\ Definers(83) = {2000, 2024}
        /\ Tables[2000][83] = 1000
        /\ Tables[2024][83] = 995
        /\ Entries[i].living = 164

\* C8, as claimed: when no survival array has an element at the cohort's
\* age, living = births at age 0, living = round(births * (1000 - 12 * age)
\* / 1000) for the ages 1..83, and living = 0 for every age >= 84.
C8_LinearExact ==
    ValidCall =>
        \A i \in 1..Len(Entries) :
            Definers(Entries[i].age) = {} =>
                /\ Entries[i].age = 0 => Entries[i].living = Entries[i].births
                /\ (1 <= Entries[i].age /\ Entries[i].age <= 83) =>
                        Entries[i].living =
                            RoundHalfUp(Entries[i].births
                                            * (1000 - 12 * Entries[i].age), 1000)
                /\ Entries[i].age >= 84 => Entries[i].living = 0

\* C8, amended: when no survival array has an element at the cohort's age,
\* living = births at age 0 and living = 0 for every age >= 84; for the ages
\* 1..83 living = round(births * (1000 - 12 * age) / 1000) unless that
\* quotient lies exactly halfway between two integers, where the product
\* of doubles may fall below the half and living is that rounding or one
\* less.
C8_LinearDouble ==
    ValidCall =>
        \A i \in 1..Len(Entries) :
            Definers(Entries[i].age) = {} =>
                /\ Entries[i].age = 0 => Entries[i].living = Entries[i].births
                /\ (1 <= Entries[i].age /\ Entries[i].age <= 83) =>
                        LET n == Entries[i].births
                                    * (1000 - 12 * Entries[i].age)
                        IN  IF n % 1000 = 500
                            THEN Entries[i].living \in
                                    {RoundHalfUp(n, 1000) - 1,
                                     RoundHalfUp(n, 1000)}
                            ELSE Entries[i].living = RoundHalfUp(n, 1000)
                /\ Entries[i].age >= 84 => Entries[i].living = 0

C8_Witness ==
    /\ ValidCall
    /\ pc = "distribution"
    /\ Len(Entries) = 2
    /\ Entries[1].year = 1941 /\ Entries[1].births = 165
    /\ Entries[1].living = 0
    /\ Entries[2].year = 2000 /\ Entries[2].births = 165
    /\ Entries[2].living = 115
    /\ Definers(84) = {} /\ Definers(25) = {}

\* C9: the living estimate is clamped at 0: for births > 0 and any
\* probability found in the survival table, an invalid one below 0
\* included, the entry has living >= 0.
C9_LivingClamped ==
    ValidCall =>
        \A i \in 1..Len(Entries) :
            (Entries[i].births > 0 /\ Definers(Entries[i].age) # {}) =>
                Entries[i].living >= 0

(***************************************************************************)
(* Properties of the aggregator                                            *)
(***************************************************************************)
\* the sum of the living values, from the last entry backwards
RECURSIVE SumOfLiving(_)
SumOfLiving(q) ==
    IF q = <<>> THEN 0
    ELSE SumOfLiving(SubSeq(q, 1, Len(q) - 1)) + q[Len(q)].living

\* C10: calculateTotalLiving, and the totalLiving of the summary that
\* calculateStats returns, is exactly the sum of the living values of all
\* entries of the distribution (0 when there is no distribution).
C10_TotalIsSum ==
    (pc = "done" /\ result.outcome.kind = "return") =>
        /\ result.fn = "calculateTotalLiving" =>
                result.outcome.value =
                    IF distribution = Null THEN 0 ELSE SumOfLiving(Entries)
        /\ result.fn = "calculateStats" =>
                result.outcome.value.totalLiving = SumOfLiving(Entries)

C10_Witness ==
    /\ pc = "done"
    /\ result.fn = "calculateStats"
    /\ result.outcome.kind = "return"
    /\ Len(Entries) = 2
    /\ Entries[1].living = 100 /\ Entries[1].births = 200
    /\ Entries[2].living = 200 /\ Entries[2].births = 100
    /\ result.outcome.value.totalLiving = 300

\* an aggregator operation was called on a distribution and returned
Returns(fns) ==
    /\ pc = "done"
    /\ result.kind = "call"
    /\ result.fn \in fns
    /\ result.outcome.kind = "return"
    /\ distribution # Null

\* the value of the summary's field, or the value the operation returned
Value(field) ==
    IF result.fn = "calculateStats" THEN result.outcome.value[field]
    ELSE result.outcome.value

\* C11: for a non-empty distribution, findPeakBirthYear returns the year and
\* births of an entry whose births is the maximum over all entries, and
\* among several such entries the first in the distribution's order.
C11_PeakIsFirstMaximum ==
    (Returns({"findPeakBirthYear", "calculateStats"}) /\ Entries # <<>>) =>
        \E i \in 1..Len(Entries) :
            /\ \A j \in 1..Len(Entries) : Entries[j].births <= Entries[i].births
            /\ \A j \in 1..(i - 1) : Entries[j].births < Entries[i].births
            /\ Value("peakBirthYear") =
                    [year |-> Entries[i].year, births |-> Entries[i].births]

C11_Witness ==
    /\ Returns({"findPeakBirthYear"})
    /\ Len(Entries) = 2
    /\ Entries[1].year = 1996 /\ Entries[1].births = 200
    /\ Entries[2].year = 2000 /\ Entries[2].births = 200
    /\ result.outcome.value = [year |-> 1996, births |-> 200]

\* the place of entry i in the walk from the oldest entry to the youngest;
\* entries of one age keep the order of the distribution
WalkPosition(q, i) ==
    1 + Cardinality({j \in 1..Len(q) : q[j].age > q[i].age})
      + Cardinality({j \in 1..(i - 1) : q[j].age = q[i].age})

\* the sum of living over the walk up to and including entry i
RunningSum(q, i) ==
    SumOfLiving([k \in 1..Len(q) |->
                    IF WalkPosition(q, k) <= WalkPosition(q, i) THEN q[k]
                    ELSE [q[k] EXCEPT !.living = 0]])

\* entry i is the first of the walk whose running sum, times den, is at
\* least num times the total
FirstToReach(q, i, num, den) ==
    /\ den * RunningSum(q, i) >= num * SumOfLiving(q)
    /\ \A j \in 1..Len(q) :
            WalkPosition(q, j) < WalkPosition(q, i) =>
                den * RunningSum(q, j) < num * SumOfLiving(q)

\* the birth series of the scenario, every cohort surviving whole
ScenarioEstimated ==
    /\ ValidCall
    /\ Series = ScenarioSeries
    /\ Len(Entries) = 3
    /\ \A i \in 1..3 : Entries[i].living = Entries[i].births

\* C12: for a distribution with total living > 0, calculateMedianAge returns
\* the age of the first entry, walking from the oldest to the youngest, at
\* which the running sum of living is at least half the total; for births
\* {1996: 100, 2000: 200, 2004: 100} that all survive it returns 25.
C12_MedianIsFirstToReachHalf ==
    (Returns({"calculateMedianAge", "calculateStats"})
     /\ SumOfLiving(Entries) > 0) =>
        /\ \E i \in 1..Len(Entries) :
                /\ FirstToReach(Entries, i, 1, 2)
                /\ Value("medianAge") = Entries[i].age
        /\ ScenarioEstimated => Value("medianAge") = 25

C12_Witness ==
    /\ Returns({"calculateMedianAge"})
    /\ ScenarioEstimated
    /\ result.outcome.value = 25

MinAge(q) ==
    CHOOSE a \in {q[i].age : i \in 1..Len(q)} :
        \A i \in 1..Len(q) : a <= q[i].age

MaxAge(q) ==
    CHOOSE a \in {q[i].age : i \in 1..Len(q)} :
        \A i \in 1..Len(q) : a >= q[i].age

MedianWithinAges ==
    /\ MinAge(Entries) <= Value("medianAge")
    /\ Value("medianAge") <= MaxAge(Entries)

\* C13 as stated: for every non-empty distribution the median age lies
\* between the minimum and the maximum age of its entries, inclusive.
C13_MedianWithinAgesOfAny ==
    (Returns({"calculateMedianAge", "calculateStats"}) /\ Entries # <<>>) =>
        MedianWithinAges

\* C13: for every non-empty distribution whose total living is not zero the
\* median age lies between the minimum and the maximum age of its entries,
\* inclusive.
C13_MedianWithinAges ==
    (Returns({"calculateMedianAge", "calculateStats"}) /\ Entries # <<>>
     /\ SumOfLiving(Entries) # 0) =>
        MedianWithinAges

C13_Witness ==
    /\ Returns({"calculateStats"})
    /\ ScenarioEstimated
    /\ result.outcome.value.medianAge = 25
    /\ MinAge(Entries) = 21 /\ MaxAge(Entries) = 29

\* C14: for a distribution with non-negative living values and total living
\* > 0, the age range of the default percentiles 10 and 90 and the median
\* age satisfy lower <= median <= upper.
C14_MedianWithinAgeRange ==
    (Returns({"calculateStats"})
     /\ (\A i \in 1..Len(Entries) : Entries[i].living >= 0)
     /\ SumOfLiving(Entries) > 0) =>
        /\ result.outcome.value.ageRange.lower <= result.outcome.value.medianAge
        /\ result.outcome.value.medianAge <= result.outcome.value.ageRange.upper

C14_Witness ==
    /\ Returns({"calculateStats"})
    /\ Len(Entries) = 3
    /\ \A i \in 1..3 : Entries[i].living > 0
    /\ result.outcome.value.ageRange.lower < result.outcome.value.medianAge
    /\ result.outcome.value.medianAge < result.outcome.value.ageRange.upper

\* C15: of two distributions that are identical except that the second has
\* a larger living value at one entry, if that entry is younger than the
\* median age of the first, the median age of the second is not above it.
C15_MedianFollowsYoungerWeight ==
    (pc = "done" /\ result.kind = "compare"
     /\ Entries[result.index].age < result.first.value) =>
        result.outcome.value <= result.first.value

ZeroSummary ==
    [totalLiving   |-> 0,
     medianAge     |-> 0,
     peakBirthYear |-> [year |-> 0, births |-> 0],
     ageRange      |-> [lower |-> 0, upper |-> 0],
     yearRange     |-> [earliest |-> 0, latest |-> 0]]

\* C17: on an empty distribution calculateTotalLiving returns 0,
\* calculateMedianAge 0, findPeakBirthYear {year: 0, births: 0},
\* calculateAgeRange {lower: 0, upper: 0}, and calculateStats exactly these
\* values with yearRange {earliest: 0, latest: 0}.
C17_EmptyGivesZeros ==
    (Returns({"calculateTotalLiving", "calculateMedianAge",
              "findPeakBirthYear", "calculateAgeRange", "calculateStats"})
     /\ Entries = <<>>) =>
        result.outcome.value =
            CASE result.fn = "calculateTotalLiving" -> ZeroSummary.totalLiving
              [] result.fn = "calculateMedianAge" -> ZeroSummary.medianAge
              [] result.fn = "findPeakBirthYear" -> ZeroSummary.peakBirthYear
              [] result.fn = "calculateAgeRange" -> ZeroSummary.ageRange
              [] result.fn = "calculateStats" -> ZeroSummary

C17_Witness ==
    /\ Returns({"calculateStats"})
    /\ args = NoArgs
    /\ Entries = <<>>
    /\ result.outcome.value = ZeroSummary

\* C18: calculateStats does not throw: given no distribution (null or
\* undefined) it completes and returns the summary of the empty
\* distribution.
C18_StatsOfNoDistribution ==
    (pc = "done" /\ result.kind = "call" /\ result.fn = "calculateStats"
     /\ distribution = Null) =>
        result.outcome = Returned(ZeroSummary)

\* C19: calculateAgeDistribution returns the empty sequence whenever the
\* birth series or the survival table is missing.
C19_MissingDataGivesEmpty ==
    (pc \in {"distribution", "done"} /\ args # NoArgs
     /\ (args.babyNamesData = Null \/ args.lifeTablesData = Null)) =>
        distribution = Arr(<<>>)

C19_Witness ==
    /\ pc = "distribution"
    /\ args # NoArgs
    /\ args.name = "Oliver"
    /\ args.babyNamesData = Obj(ScenarioSeries)
    /\ args.lifeTablesData = Null
    /\ distribution = Arr(<<>>)

\* C20: for a non-empty distribution produced by calculateAgeDistribution,
\* calculateStats returns as yearRange.earliest the year of the first entry
\* and as yearRange.latest the year of the last entry; these are the
\* smallest and the largest birth year, so earliest <= latest.
C20_YearRangeIsExtremes ==
    (Returns({"calculateStats"}) /\ args # NoArgs /\ Entries # <<>>) =>
        LET yearRange == result.outcome.value.yearRange
        IN  /\ yearRange.earliest = Entries[1].year
            /\ yearRange.latest = Entries[Len(Entries)].year
            /\ \A i \in 1..Len(Entries) :
                    /\ yearRange.earliest <= Entries[i].year
                    /\ Entries[i].year <= yearRange.latest
            /\ yearRange.earliest <= yearRange.latest

C20_Witness ==
    /\ Returns({"calculateStats"})
    /\ args # NoArgs
    /\ Len(Entries) = 3
    /\ result.outcome.value.yearRange = [earliest |-> 1996, latest |-> 2004]

\* C21: the core functions have no side effects on their inputs: the
\* aggregator operations leave the entries of the distribution and their
\* order as they were, and calculateAgeDistribution leaves the birth series
\* and the survival table as they were.
C21_InputsUnchanged ==
    [][/\ pc = "arguments" => args' = args
       /\ pc = "distribution" => distribution' = distribution]_vars

C21_Witness ==
    /\ Returns({"calculateMedianAge"})
    /\ Len(Entries) = 2
    /\ Entries[1].age = 21 /\ Entries[1].living = 100
    /\ Entries[2].age = 29 /\ Entries[2].living = 200
    /\ result.outcome.value = 29

\* C22: for a distribution whose living values are all >= 0 and whose total
\* living is > 0, calculateMedianAge returns from inside the loop of the
\* oldest-to-youngest walk; the fallback after the loop is not executed.
C22_FallbackNotExecuted ==
    (Returns({"calculateMedianAge"})
     /\ (\A i \in 1..Len(Entries) : Entries[i].living >= 0)
     /\ SumOfLiving(Entries) > 0) =>
        result.path = "loop"

C22_Witness ==
    /\ Returns({"calculateMedianAge"})
    /\ Len(Entries) = 2
    /\ Entries[1].age = 29 /\ Entries[1].living = 0
    /\ Entries[2].age = 21 /\ Entries[2].living = 100
    /\ result.path = "loop"
    /\ result.outcome.value = 21

(***************************************************************************)
(* Properties of the data loader                                           *)
(***************************************************************************)
\* C23: the cache avoids repeated fetches: in every interleaving of calls of
\* loadBabyNames and loadLifeTables, two calls for the same gender that
\* start before either has completed included, each data file is fetched
\* at most once between two calls of clearCache.
C23_FetchedAtMostOnce ==
    \A file \in Files : fetched[file] <= 1

\* a call has just failed
FetchFailed ==
    /\ lastCall' # lastCall
    /\ lastCall'.kind = "load"
    /\ lastCall'.outcome.kind = "throw"

\* C24: a failed fetch in loadBabyNames or loadLifeTables raises an error
\* and leaves every cache slot as it was, the slot of the failed call
\* staying null, so that a later call for the same gender fetches again;
\* clearCache resets all four slots to null.
C24_FailedFetchLeavesSlotNull ==
    [][/\ FetchFailed =>
            /\ cache' = cache
            /\ cache'[lastCall'.cacheKey] = Null
       /\ lastCall'.kind = "clearCache" =>
            \A slot \in Slots : cache'[slot] = Null]_vars

(***************************************************************************)
(* Properties of the Home page                                             *)
(***************************************************************************)
\* C25: in every reachable state of the Home page, after any sequence of
\* name searches and gender changes, if stats is not null then distribution
\* is calculateAgeDistribution for searchedName under the selected gender
\* and stats is calculateStats of that distribution.
C25_ResultsMatchSelection ==
    stats # Null =>
        /\ distribution =
                calculateAgeDistribution(Join(searchedName), gender,
                    getNameData(searchedName, DataOf(gender).babyNames),
                    DataOf(gender).lifeTables)
        /\ Returned(stats) = calculateStats(distribution)

C25_Witness ==
    /\ gender = "female"
    /\ searchedName = Alex
    /\ stats # Null
    /\ stats.totalLiving = 400
    /\ Len(distribution.items) = 3

LoadedOrFailed ==
    \/ dataLoaded /\ maleData # Null /\ femaleData # Null /\ error = Null
    \/ ~dataLoaded /\ error # Null

\* C27: the data load of the first render always ends with loading = false,
\* and at that point either dataLoaded is true, both datasets are set and
\* error is null, or dataLoaded is false and error is not null; while
\* dataLoaded is false a name search changes nothing.
C27_LoadTerminates ==
    /\ <>(loading = FALSE)
    /\ [][(loading /\ ~loading') => LoadedOrFailed']_vars
    /\ [][\A name \in NameChoices :
            (~dataLoaded /\ handleNameSearch(name)) =>
                UNCHANGED <<pageVars, distribution>>]_vars

C27_Witness ==
    /\ loading = FALSE
    /\ dataLoaded = FALSE
    /\ error # Null
    /\ inflight # {}
    /\ \E slot \in Slots : cache[slot] # Null

(***************************************************************************)
(* NameSearchInput.  An event of the input is handled once the effect of   *)
(* the last render has run.                                                *)
(***************************************************************************)
\* normalizeName of a string
normalizeName(name) == Trim(name)

\* useEffect(() => { .. }, [inputValue, babyNamesData])
RunEffect ==
    /\ effectPending
    /\ effectPending' = FALSE
    /\ IF babyNamesData = Null \/ Len(Trim(inputValue)) = 0
       THEN /\ suggestions' = <<>>
            /\ showSuggestions' = FALSE
            /\ UNCHANGED selectedIndex
       ELSE LET matches == searchNames(inputValue, babyNamesData, 10)
            IN  /\ suggestions' = matches
                /\ showSuggestions' = (Len(matches) > 0)
                /\ selectedIndex' = -1
    /\ UNCHANGED <<inputValue, babyNamesData, lastSubmit, outsideInput>>

\* handleSubmit(name); handleSubmit() is handleSubmit(<<>>)
handleSubmit(name) ==
    LET normalizedName == normalizeName(IF name # <<>> THEN name ELSE inputValue)
    IN  IF normalizedName # <<>>
        THEN /\ lastSubmit' = [kind |-> "submit", name |-> normalizedName]
             /\ showSuggestions' = FALSE
             /\ inputValue' = normalizedName
             /\ effectPending' = (normalizedName # inputValue)
             /\ UNCHANGED <<suggestions, selectedIndex, babyNamesData>>
        ELSE UNCHANGED inputVars

\* the updater of ArrowDown without the test of the last suggestion
ArrowDownUnbounded(prev) == prev + 1

\* prev => prev < suggestions.length - 1 ? prev + 1 : prev
ArrowDown(prev) == IF prev < Len(suggestions) - 1 THEN prev + 1 ELSE prev

\* prev => prev > 0 ? prev - 1 : -1
ArrowUp(prev) == IF prev > 0 THEN prev - 1 ELSE -1

Keys == {"ArrowDown", "ArrowUp", "Enter", "Escape", "Tab"}

handleKeyDown(key) ==
    IF ~showSuggestions
    THEN IF key = "Enter" THEN handleSubmit(<<>>) ELSE UNCHANGED inputVars
    ELSE CASE key = "ArrowDown" ->
                /\ selectedIndex' = ArrowDown(selectedIndex)
                /\ UNCHANGED <<inputValue, suggestions, showSuggestions,
                               babyNamesData, effectPending, lastSubmit>>
           [] key = "ArrowUp" ->
                /\ selectedIndex' = ArrowUp(selectedIndex)
                /\ UNCHANGED <<inputValue, suggestions, showSuggestions,
                               babyNamesData, effectPending, lastSubmit>>
           [] key = "Enter" ->
                IF selectedIndex >= 0 /\ selectedIndex < Len(suggestions)
                THEN handleSubmit(suggestions[selectedIndex + 1])
                ELSE handleSubmit(<<>>)
           [] key = "Escape" ->
                /\ showSuggestions' = FALSE
                /\ selectedIndex' = -1
                /\ UNCHANGED <<inputValue, suggestions, babyNamesData,
                               effectPending, lastSubmit>>
           [] OTHER -> UNCHANGED inputVars

\* what the user types into the input
InputChoices ==
    {<<>>, <<" ">>, <<"O", "l">>, <<"l">>, <<"l", " ">>, Oliver, Alex,
     <<"Z", "e", "d">>}

\* handleInputChange: the user edits the text
InputChange ==
    /\ ~effectPending
    /\ \E value \in InputChoices \ {inputValue} :
            /\ inputValue' = value
            /\ effectPending' = TRUE
            /\ lastSubmit' = NoResult
    /\ UNCHANGED <<suggestions, showSuggestions, selectedIndex, babyNamesData,
                   outsideInput>>

KeyDown ==
    /\ ~effectPending
    /\ \E key \in Keys : handleKeyDown(key)
    /\ UNCHANGED outsideInput

\* the Search button
ClickSearch ==
    /\ ~effectPending
    /\ handleSubmit(<<>>)
    /\ UNCHANGED outsideInput

\* handleSuggestionClick on an item of the rendered list
ClickSuggestion ==
    /\ ~effectPending
    /\ showSuggestions /\ Len(suggestions) > 0
    /\ \E index \in 1..Len(suggestions) : handleSubmit(suggestions[index])
    /\ UNCHANGED outsideInput

\* onFocus
Focus ==
    /\ ~effectPending
    /\ showSuggestions' = IF Len(suggestions) > 0 THEN TRUE ELSE showSuggestions
    /\ lastSubmit' = NoResult
    /\ UNCHANGED <<inputValue, suggestions, selectedIndex, babyNamesData,
                   effectPending, outsideInput>>

\* Home renders the component with the names of the other gender
DataChange ==
    /\ ~effectPending
    /\ babyNamesData' \in {FileData("baby-names-boys.json"),
                           FileData("baby-names-girls.json")} \ {babyNamesData}
    /\ effectPending' = TRUE
    /\ UNCHANGED <<inputValue, suggestions, showSuggestions, selectedIndex,
                   lastSubmit, outsideInput>>

InputNext ==
    \/ RunEffect
    \/ InputChange
    \/ KeyDown
    \/ ClickSearch
    \/ ClickSuggestion
    \/ Focus
    \/ DataChange

InputSpec == Init /\ [][InputNext]_vars

\* C28: once a name is submitted and the effects have run, the list of
\* suggestions is hidden, until the user edits or focuses the input.
C28_HiddenAfterSubmit ==
    (lastSubmit # NoResult /\ ~effectPending) => ~showSuggestions

\* C29: while the list of suggestions is shown there are suggestions and
\* selectedIndex is -1 or the index of one of them.
C29_SelectionInRange ==
    showSuggestions =>
        /\ Len(suggestions) > 0
        /\ -1 <= selectedIndex
        /\ selectedIndex <= Len(suggestions) - 1

C29_Witness ==
    /\ showSuggestions
    /\ Len(suggestions) = 2
    /\ selectedIndex = 1
    /\ ~effectPending

(***************************************************************************)
(* Properties of searchNames                                               *)
(***************************************************************************)
\* the query as searchNames compares it: trimmed and in lower case
Wanted == ToLowerCase(Trim(args.query))

\* part is a run of consecutive characters of chars
Occurs(part, chars) ==
    \E from \in 1..(Len(chars) + 1), to \in 0..Len(chars) :
        SubSeq(chars, from, to) = part

\* part is what chars begins with
Begins(part, chars) ==
    \E to \in 0..Len(chars) : SubSeq(chars, 1, to) = part

\* C30: searchNames returns at most limit names, all different and all of
\* the dataset, each containing the trimmed query whatever the case; and if
\* a returned name does not start with the query, every name of the
\* dataset that starts with the query is returned.
C30_SearchResult ==
    (pc = "done" /\ result.fn = "searchNames" /\ args.babyNamesData # Null) =>
        LET found == result.outcome.value
            keys  == args.babyNamesData.keys
        IN  /\ Len(found) <= args.limit
            /\ \A i, j \in 1..Len(found) : i # j => found[i] # found[j]
            /\ \A i \in 1..Len(found) :
                    /\ \E k \in 1..Len(keys) : keys[k] = found[i]
                    /\ Occurs(Wanted, ToLowerCase(found[i]))
            /\ (\E i \in 1..Len(found) : ~Begins(Wanted, ToLowerCase(found[i])))
                    => \A k \in 1..Len(keys) :
                            Begins(Wanted, ToLowerCase(keys[k])) =>
                                \E i \in 1..Len(found) : found[i] = keys[k]

C30_Witness ==
    /\ pc = "done" /\ result.fn = "searchNames"
    /\ args.query = <<"O", "L", " ">>
    /\ args.babyNamesData # Null
    /\ args.babyNamesData.keys = <<Viola, Nicola, Oliver>>
    /\ args.limit = 2
    /\ result.outcome.value = <<Oliver, Viola>>

====
